---- MODULE Spec2Model ----
(***************************************************************************)
(* Model of sync_projects.py: make_project_hierarchy (flat records to a    *)
(* forest of nested nodes, optionally scoped) and project_iterator /       *)
(* create_project (recursive create-or-reuse replay of the forest onto a   *)
(* target server).                                                         *)
(*                                                                         *)
(* Values are strings, as in the program: source project ids are "s1",     *)
(* "s2", ...; ids handed out by the target server are "t1", "t2", ...;     *)
(* None is Python's None and EmptyStr the empty string, the two falsy      *)
(* values an optional string can take.                                     *)
(***************************************************************************)
EXTENDS Integers, Sequences, FiniteSets, TLC

\* ------------------------------------------------------------------ bounds
MaxRecords == 3     \* longest record list given to make_project_hierarchy
MaxNodes == 3       \* largest forest replayed by project_iterator
MaxFaults == 1      \* server errors other than a conflict, per behaviour
MaxRuns == 2        \* times project_iterator is run against the same target

\* ------------------------------------------------------------------ values
None == "None"
EmptyStr == ""
Names == {"A", "B"}
NameOf == <<"A", "B", "C", "D", "E">>

SrcId(k) == "s" \o ToString(k)
TgtId(k) == "t" \o ToString(k)

\* Python truthiness of an optional string: `if x` / `not x`.
Truthy(x) == x /= None /\ x /= EmptyStr

VARIABLES
    projects,            \* the flat list of [id, name, parent_id] records
    scoped_project_id,   \* the scope argument of make_project_hierarchy
    nodes,               \* the dict id -> node; a node's children are ids of nodes
    forest,              \* the list of root nodes (ids of nodes)
    i,                   \* position of the second loop of make_project_hierarchy
    pc,                  \* where the program is
    server,              \* the projects on the target server
    stack,               \* call stack of project_iterator: one frame per call
    project_item,        \* the ProjectItem create_project is working on
    calls,               \* the requests sent to the target in this run, in order
    obtained,            \* node id -> id of the item create_project returned for it
    before,              \* the target's projects when this run started
    run,                 \* which run of project_iterator this is
    faults               \* server errors other than a conflict raised so far

vars == <<projects, scoped_project_id, nodes, forest, i, pc, server, stack,
          project_item, calls, obtained, before, run, faults>>

buildVars == <<projects, scoped_project_id, nodes, forest, i>>
targetVars == <<server, stack, project_item, calls, obtained, before, run, faults>>

\* ------------------------------------------------- make_project_hierarchy
Node(id, name) == [id |-> id, name |-> name, children |-> <<>>]

\* The ids the first loop has put in the dict.
Ids(ps) == {ps[k].id : k \in 1..Len(ps)}

\* Position of the last record with this id: a later record overwrites the
\* dict entry of an earlier one with the same id.
LastIndex(ps, id) == CHOOSE k \in 1..Len(ps) :
    /\ ps[k].id = id
    /\ \A m \in (k+1)..Len(ps) : ps[m].id /= id

\* First loop: nodes[id] = {"id": id, "name": name}.
IndexNodes(ps) == [id \in Ids(ps) |-> Node(id, ps[LastIndex(ps, id)].name)]

\* Faulty variant: the scope is compared with the record's parent, not its id.
IsScopedByParent(rec, scope) == Truthy(scope) /\ rec.parent_id = scope

\* The three branches of the second loop.
IsScoped(rec, scope) == Truthy(scope) /\ rec.id = scope
\* Faulty variants: the root branch forgets to look at the parent, or at the scope.
IsRootWithoutParentTest(rec, scope) == ~IsScoped(rec, scope) /\ ~Truthy(scope)
IsRootWithoutScopeTest(rec, scope) == ~IsScoped(rec, scope) /\ ~Truthy(rec.parent_id)

IsRoot(rec, scope) == ~IsScoped(rec, scope) /\ ~Truthy(scope) /\ ~Truthy(rec.parent_id)
IsAttach(rec, scope) == ~IsScoped(rec, scope) /\ ~IsRoot(rec, scope)

\* Faulty variant: the child is put in front of its siblings.
AttachToParentInFront(ns, rec) ==
    IF rec.parent_id \in DOMAIN ns
    THEN [ns EXCEPT ![rec.parent_id].children = <<rec.id>> \o @]
    ELSE ns

\* parent = nodes.get(parent_id, {}); parent["children"].append(node).
\* A missing parent is a fresh dict that nothing else refers to.
AttachToParent(ns, rec) ==
    IF rec.parent_id \in DOMAIN ns
    THEN [ns EXCEPT ![rec.parent_id].children = Append(@, rec.id)]
    ELSE ns

\* Faulty variant: a record whose parent is unknown is made a root.
BuildStepOrphanAsRoot(st, rec, scope) ==
    IF IsScoped(rec, scope) \/ IsRoot(rec, scope) \/ rec.parent_id \notin DOMAIN st.nodes
    THEN [nodes |-> st.nodes, forest |-> Append(st.forest, rec.id)]
    ELSE [nodes |-> AttachToParent(st.nodes, rec), forest |-> st.forest]

\* Faulty variant: the scoped record is made a root and, the elif missing,
\* attached to its parent as well.
BuildStepScopedAlsoAttached(st, rec, scope) ==
    IF IsScoped(rec, scope)
    THEN [nodes |-> AttachToParent(st.nodes, rec), forest |-> Append(st.forest, rec.id)]
    ELSE IF IsRoot(rec, scope)
    THEN [nodes |-> st.nodes, forest |-> Append(st.forest, rec.id)]
    ELSE [nodes |-> AttachToParent(st.nodes, rec), forest |-> st.forest]

\* One iteration of the second loop on the state [nodes, forest].
BuildStep(st, rec, scope) ==
    IF IsScoped(rec, scope) \/ IsRoot(rec, scope)
    THEN [nodes |-> st.nodes, forest |-> Append(st.forest, rec.id)]
    ELSE [nodes |-> AttachToParent(st.nodes, rec), forest |-> st.forest]

RECURSIVE BuildFrom(_, _, _, _)
BuildFrom(st, ps, k, scope) ==
    IF k > Len(ps) THEN st
    ELSE BuildFrom(BuildStep(st, ps[k], scope), ps, k + 1, scope)

\* The whole function: [nodes, forest] as make_project_hierarchy leaves them.
MakeProjectHierarchy(ps, scope) ==
    BuildFrom([nodes |-> IndexNodes(ps), forest |-> <<>>], ps, 1, scope)


\* --------------------------------------------- inputs of the build
SrcIds == {SrcId(k) : k \in 1..MaxRecords}
MissingId == SrcId(MaxRecords + 1)      \* an id no record has

\* Record lists as get_projects can hand them over, and malformed ones:
\* duplicate ids, parents that are missing, parent links that form a cycle.
\* The record at position k is named NameOf[k]. The build uses ids only as
\* dict keys, so ids are numbered in the order of their first occurrence.
ParentIds == {None, MissingId} \cup SrcIds

FirstOccurrenceOrder(ps) ==
    \A k \in 1..Len(ps) : \A m \in 1..MaxRecords :
        (ps[k].id = SrcId(m) /\ m > 1) => \E j \in 1..(k - 1) : ps[j].id = SrcId(m - 1)

RecordLists(n) ==
    {[k \in 1..n |-> [id |-> f[k][1], name |-> NameOf[k], parent_id |-> f[k][2]]] :
        f \in [1..n -> SrcIds \X ParentIds]}

\* top_level_project_id of configs.yml: absent, empty, or any string.
Scopes == {None, EmptyStr, MissingId} \cup SrcIds

NoTarget ==
    /\ server = {}
    /\ stack = <<>>
    /\ project_item = None
    /\ calls = <<>>
    /\ obtained = <<>>
    /\ before = {}
    /\ run = 0
    /\ faults = 0

InitBuild ==
    /\ \E n \in 0..MaxRecords : projects \in RecordLists(n)
    /\ FirstOccurrenceOrder(projects)
    /\ scoped_project_id \in Scopes
    /\ nodes = <<>>
    /\ forest = <<>>
    /\ i = 0
    /\ pc = "index"
    /\ NoTarget

\* Lines 8-13: the first loop and forest = [].
IndexAll ==
    /\ pc = "index"
    /\ nodes' = IndexNodes(projects)
    /\ forest' = <<>>
    /\ i' = 1
    /\ pc' = "loop"
    /\ UNCHANGED <<projects, scoped_project_id>>
    /\ UNCHANGED targetVars

InLoop == pc = "loop" /\ i <= Len(projects)

\* Lines 16-33 for the record at position i.
LoopBody ==
    /\ LET st == BuildStep([nodes |-> nodes, forest |-> forest], projects[i], scoped_project_id)
       IN  /\ nodes' = st.nodes
           /\ forest' = st.forest
    /\ i' = i + 1
    /\ UNCHANGED <<projects, scoped_project_id, pc>>

\* Lines 21-22: the scoped project becomes a root.
AppendScoped ==
    /\ InLoop
    /\ IsScoped(projects[i], scoped_project_id)
    /\ LoopBody
    /\ UNCHANGED targetVars

\* Lines 24-25: without a scope, a project without a parent becomes a root.
AppendRoot ==
    /\ InLoop
    /\ IsRoot(projects[i], scoped_project_id)
    /\ LoopBody
    /\ UNCHANGED targetVars

\* Lines 26-33: every other project is appended to its parent's children.
AttachChild ==
    /\ InLoop
    /\ IsAttach(projects[i], scoped_project_id)
    /\ LoopBody
    /\ UNCHANGED targetVars

\* Line 35: return forest.
ReturnForest ==
    /\ pc = "loop"
    /\ i > Len(projects)
    /\ pc' = "built"
    /\ UNCHANGED buildVars
    /\ UNCHANGED targetVars

NextBuild ==
    \/ IndexAll
    \/ AppendScoped
    \/ AppendRoot
    \/ AttachChild
    \/ ReturnForest

SpecBuild == InitBuild /\ [][NextBuild]_vars

Built == pc = "built"

\* ------------------------------------------- reading records and forests
UniqueIds(ps) == \A a, b \in 1..Len(ps) : ps[a].id = ps[b].id => a = b

\* The parent ids the records give to the ids in S.
ParentsOf(ps, S) == {ps[k].parent_id : k \in {m \in 1..Len(ps) : ps[m].id \in S}} \ {None}

RECURSIVE UpClosure(_, _)
UpClosure(ps, S) ==
    LET T == S \cup ParentsOf(ps, S)
    IN  IF T = S THEN S ELSE UpClosure(ps, T)

\* Every id met by following parent_id links from id, one link or more.
StrictAncestors(ps, id) == UpClosure(ps, ParentsOf(ps, {id}))

OnCycle(ps, id) == id \in StrictAncestors(ps, id)
NoCycles(ps) == \A id \in Ids(ps) : ~OnCycle(ps, id)

\* The record ids whose chain of parent links leads to x, and x itself.
SubtreeIds(ps, x) == {x} \cup {id \in Ids(ps) : x \in StrictAncestors(ps, id)}

ChildrenOf(ns, S) == UNION {{ns[n].children[k] : k \in 1..Len(ns[n].children)} : n \in S}

RECURSIVE DownClosure(_, _)
DownClosure(ns, S) ==
    LET T == S \cup ChildrenOf(ns, S)
    IN  IF T = S THEN S ELSE DownClosure(ns, T)

Range(seq) == {seq[k] : k \in 1..Len(seq)}

\* The nodes one can reach from a list of roots through children.
Reachable(ns, roots) == DownClosure(ns, Range(roots))

\* The trees hanging under x in two builds have the same nodes, names,
\* nesting and child order.
SameSubtree(ns1, ns2, x) ==
    /\ Reachable(ns1, <<x>>) = Reachable(ns2, <<x>>)
    /\ \A n \in Reachable(ns1, <<x>>) :
          /\ ns1[n].name = ns2[n].name
          /\ ns1[n].children = ns2[n].children

NullParentCount(ps) == Cardinality({k \in 1..Len(ps) : ps[k].parent_id = None})

\* A record that names a parent which no other record is.
IsOrphan(ps, k) ==
    /\ ps[k].parent_id /= None
    /\ \A m \in 1..Len(ps) : m /= k => ps[m].id /= ps[k].parent_id

\* The places where node n is referred to: positions of the root list and
\* positions of the children lists of the nodes in S.
RootSlots(roots, n) == {<<None, k>> : k \in {j \in 1..Len(roots) : roots[j] = n}}
ChildSlots(ns, S, n) ==
    UNION {{<<m, k>> : k \in {j \in 1..Len(ns[m].children) : ns[m].children[j] = n}} : m \in S}
Slots(ns, roots, S, n) == RootSlots(roots, n) \cup ChildSlots(ns, S, n)

\* No node below the roots is its own descendant.
Acyclic(ns, roots) ==
    \A n \in Reachable(ns, roots) : n \notin DownClosure(ns, ChildrenOf(ns, {n}))

\* Position of the record with this id in a list with unique ids.
Pos(ps, id) == CHOOSE k \in 1..Len(ps) : ps[k].id = id

\* seq lists exactly the ids of the records at the positions in P, in the
\* order of the record list.
ListsInOrder(ps, seq, P) ==
    /\ Len(seq) = Cardinality(P)
    /\ \A k \in 1..Len(seq) : Pos(ps, seq[k]) \in P
    /\ \A a, b \in 1..Len(seq) : a < b => Pos(ps, seq[a]) < Pos(ps, seq[b])

\* ------------------------------------- create_project, project_iterator
\* The forests replayed: every ordered forest of at most MaxNodes nodes with
\* names from Names, written as the record list get_projects would give
\* (unique ids, every parent listed before its children).
\* create_project and the target compare names only for equality, so the
\* names of a forest are numbered in the order of their first occurrence.
NamesInOrder(g, n) ==
    \A k \in 1..n : \A m \in 2..Len(NameOf) :
        g[k][1] = NameOf[m] => \E j \in 1..(k - 1) : g[j][1] = NameOf[m - 1]

ParentsFirst(g, n) ==
    \A k \in 1..n : g[k][2] \in {None} \cup {SrcId(m) : m \in 1..(k - 1)}

TreeLists(n) ==
    {[k \in 1..n |-> [id |-> SrcId(k), name |-> f[k][1], parent_id |-> f[k][2]]] :
        f \in {g \in [1..n -> Names \X ({None} \cup {SrcId(m) : m \in 1..n})] :
                 ParentsFirst(g, n) /\ NamesInOrder(g, n)}}

\* The target before the first run: no project, or one top-level project.
InitialServers ==
    {{}} \cup {{[id |-> TgtId(1), name |-> n, parent_id |-> None]} : n \in Names}

\* How a request to the target can end other than by an answer:
\*   "conflict"  ServerResponseError, a project of that name is under that parent
\*   "rejected"  ServerResponseError for any other reason (validation, permission)
\*   "failed"    any other exception (network, server fault)
\*   "IndexError" project_items[0] on an empty result
ErrorKinds == {"conflict", "rejected", "failed", "IndexError"}

\* Line 50: except TSC.ServerResponseError.
Caught(kind) == kind \in {"conflict", "rejected"}

\* server.projects.create refuses a name that is taken under the same parent.
Conflicts(srv, item) ==
    {r \in srv : r.name = item.name /\ r.parent_id = item.parent_id}

\* Line 52: server.projects.filter(name=project_item.name).
Matches(srv, item) == {r \in srv : r.name = item.name}

\* The id the target gives to the next project it creates.
NewId(srv) == TgtId(Cardinality(srv) + 1)

\* Line 59: TSC.ProjectItem(name=p["name"], parent_id=parent_id).
NewProjectItem(p, parent_id) == [name |-> nodes[p].name, parent_id |-> parent_id]

\* Faulty variant: the node's own (source) id is handed down as the parent.
ChildParentRefSourceId(p, item) == nodes[p].id

\* Line 62: the parent reference handed to the recursive call.
ChildParentRef(p, item) == item.id

Frame(ps, parent_id) == [projects |-> ps, k |-> 1, parent_id |-> parent_id]

Top == stack[Len(stack)]
Current == Top.projects[Top.k]

\* Faulty variant: the for loop does not move on to the next project.
RECURSIVE NextSiblingRepeats(_)
NextSiblingRepeats(stk) ==
    IF stk = <<>> THEN <<>>
    ELSE LET top == stk[Len(stk)]
         IN  IF top.k < Len(top.projects)
             THEN stk
             ELSE NextSiblingRepeats(SubSeq(stk, 1, Len(stk) - 1))

\* Line 58: the for loop moves on; when it is over the call returns and the
\* caller's loop moves on.
RECURSIVE NextSibling(_)
NextSibling(stk) ==
    IF stk = <<>> THEN <<>>
    ELSE LET top == stk[Len(stk)]
         IN  IF top.k < Len(top.projects)
             THEN [stk EXCEPT ![Len(stk)].k = top.k + 1]
             ELSE NextSibling(SubSeq(stk, 1, Len(stk) - 1))

\* Faulty variant: the recursion into the children is left out.
DescendWithoutRecursion(stk, p, item) == NextSibling(stk)

\* Lines 61-62: if p.get("children"): recurse with the returned item's id.
Descend(stk, p, item) ==
    IF nodes[p].children /= <<>>
    THEN Append(stk, Frame(nodes[p].children, ChildParentRef(p, item)))
    ELSE NextSibling(stk)

\* Faulty variant: the failure of a subtree is contained, the caller's loop
\* goes on with the next sibling.
PropagateToCaller(stk) ==
    IF Len(stk) <= 1 THEN <<>> ELSE NextSibling(SubSeq(stk, 1, Len(stk) - 1))

\* Faulty variant: the loop swallows the exception and goes on with the next node.
PropagateSwallowed(stk) == NextSibling(stk)

\* project_iterator has no handler: an exception leaves every active call.
Propagate(stk) == <<>>

\* Faulty variant: the new project takes the place of those of its name.
CreatedReplacingName(srv, item) == (srv \ Matches(srv, item)) \cup {item}

\* The target after a create that succeeded: one project more.
Created(srv, item) == srv \cup {item}

Request(op, p, item, result) ==
    [op |-> op, node |-> p, name |-> item.name, parent_id |-> item.parent_id,
     result |-> result]

Init ==
    /\ \E n \in 0..MaxNodes : projects \in TreeLists(n)
    /\ scoped_project_id = None
    /\ nodes = <<>>
    /\ forest = <<>>
    /\ i = 0
    /\ pc = "clean"
    /\ server \in InitialServers
    /\ stack = <<>>
    /\ project_item = None
    /\ calls = <<>>
    /\ obtained = <<>>
    /\ before = server
    /\ run = 0
    /\ faults = 0

\* clean_source_server_projects, lines 90-97.
CleanProjects ==
    /\ pc = "clean"
    /\ LET h == MakeProjectHierarchy(projects, scoped_project_id)
       IN  /\ nodes' = h.nodes
           /\ forest' = h.forest
    /\ i' = Len(projects) + 1
    /\ pc' = "ready"
    /\ UNCHANGED <<projects, scoped_project_id>>
    /\ UNCHANGED targetVars

\* add_projects_to_target_server, line 116: project_iterator(server, data),
\* the first time or once more after a run that returned.
AddProjects ==
    /\ pc \in {"ready", "returned"}
    /\ run < MaxRuns
    /\ run' = run + 1
    /\ before' = server
    /\ calls' = <<>>
    /\ obtained' = [n \in DOMAIN nodes |-> None]
    /\ project_item' = None
    /\ stack' = IF forest = <<>> THEN <<>> ELSE <<Frame(forest, None)>>
    /\ pc' = IF forest = <<>> THEN "returned" ELSE "create"
    /\ UNCHANGED <<server, faults>>
    /\ UNCHANGED buildVars

\* create_project returns item for the current node (line 49 or 53) and
\* project_iterator goes on (lines 61-62, 58).
Returns(item) ==
    /\ obtained' = [obtained EXCEPT ![Current] = item.id]
    /\ stack' = Descend(stack, Current, item)
    /\ pc' = IF stack' = <<>> THEN "returned" ELSE "create"
    /\ project_item' = None

\* An exception of this kind reaches the except clause of line 50.
Raises(kind, item) ==
    IF Caught(kind)
    THEN /\ pc' = "filter"
         /\ project_item' = item
         /\ UNCHANGED <<stack, obtained>>
    ELSE /\ stack' = Propagate(stack)
         /\ pc' = IF stack' = <<>> THEN "raised" ELSE "create"
         /\ project_item' = None
         /\ UNCHANGED obtained

\* Line 47 answers with the new project.
CreateSucceeds ==
    /\ pc = "create"
    /\ LET req == NewProjectItem(Current, Top.parent_id)
           item == [id |-> NewId(server), name |-> req.name, parent_id |-> req.parent_id]
       IN  /\ Conflicts(server, req) = {}
           /\ server' = Created(server, item)
           /\ calls' = Append(calls, Request("create", Current, req, item.id))
           /\ Returns(item)
    /\ UNCHANGED <<before, run, faults>>
    /\ UNCHANGED buildVars

\* Line 47 raises ServerResponseError: the name is taken under that parent.
CreateConflict ==
    /\ pc = "create"
    /\ LET req == NewProjectItem(Current, Top.parent_id)
       IN  /\ Conflicts(server, req) /= {}
           /\ calls' = Append(calls, Request("create", Current, req, "conflict"))
           /\ Raises("conflict", req)
    /\ UNCHANGED <<server, before, run, faults>>
    /\ UNCHANGED buildVars

\* Line 47 raises ServerResponseError for another reason.
CreateRejected ==
    /\ pc = "create"
    /\ faults < MaxFaults
    /\ LET req == NewProjectItem(Current, Top.parent_id)
       IN  /\ calls' = Append(calls, Request("create", Current, req, "rejected"))
           /\ Raises("rejected", req)
    /\ faults' = faults + 1
    /\ UNCHANGED <<server, before, run>>
    /\ UNCHANGED buildVars

\* Line 47 raises an exception that is no ServerResponseError.
CreateFails ==
    /\ pc = "create"
    /\ faults < MaxFaults
    /\ LET req == NewProjectItem(Current, Top.parent_id)
       IN  /\ calls' = Append(calls, Request("create", Current, req, "failed"))
           /\ Raises("failed", req)
    /\ faults' = faults + 1
    /\ UNCHANGED <<server, before, run>>
    /\ UNCHANGED buildVars

\* Lines 52-53: the lookup by name answers and its first item is returned;
\* the target decides the order of its answer.
FilterReturns ==
    /\ pc = "filter"
    /\ \E item \in Matches(server, project_item) :
          /\ calls' = Append(calls, Request("filter", Current, project_item, item.id))
          /\ Returns(item)
    /\ UNCHANGED <<server, before, run, faults>>
    /\ UNCHANGED buildVars

\* Line 53: the lookup answers with nothing and project_items[0] raises.
FilterEmpty ==
    /\ pc = "filter"
    /\ Matches(server, project_item) = {}
    /\ calls' = Append(calls, Request("filter", Current, project_item, "IndexError"))
    /\ Raises("IndexError", project_item)
    /\ UNCHANGED <<server, before, run, faults>>
    /\ UNCHANGED buildVars

\* Line 52 raises.
FilterFails ==
    /\ pc = "filter"
    /\ faults < MaxFaults
    /\ calls' = Append(calls, Request("filter", Current, project_item, "failed"))
    /\ Raises("failed", project_item)
    /\ faults' = faults + 1
    /\ UNCHANGED <<server, before, run>>
    /\ UNCHANGED buildVars

Next ==
    \/ CleanProjects
    \/ AddProjects
    \/ CreateSucceeds
    \/ CreateConflict
    \/ CreateRejected
    \/ CreateFails
    \/ FilterReturns
    \/ FilterEmpty
    \/ FilterFails

Spec == Init /\ [][Next]_vars

\* The whole pipeline of main on any record list with unique ids: parents
\* that are missing, parent links that form a cycle, any scope. The record
\* at position k has the id SrcId(k) and the name NameOf[k]. The target
\* holds a top-level project named as the first record, so that a run can
\* take the create path and the lookup path.
UniqueIdLists(n) ==
    {[k \in 1..n |-> [id |-> SrcId(k), name |-> NameOf[k], parent_id |-> f[k]]] :
        f \in [1..n -> ParentIds]}

PipelineServer == {[id |-> TgtId(1), name |-> NameOf[1], parent_id |-> None]}

InitPipeline ==
    /\ \E n \in 0..MaxRecords : projects \in UniqueIdLists(n)
    /\ scoped_project_id \in Scopes
    /\ nodes = <<>>
    /\ forest = <<>>
    /\ i = 0
    /\ pc = "clean"
    /\ server = PipelineServer
    /\ stack = <<>>
    /\ project_item = None
    /\ calls = <<>>
    /\ obtained = <<>>
    /\ before = server
    /\ run = 0
    /\ faults = 0

\* The program is one thread of blocking calls: a request that was sent is
\* answered or raises, and the statement after it is executed.
SpecPipeline == InitPipeline /\ [][Next]_vars /\ WF_vars(Next)

\* ------------------------------------------------ reading a run
\* The requests of this run that created a project, and its lookups.
Creates == {k \in 1..Len(calls) : calls[k].op = "create" /\ calls[k].result \notin ErrorKinds}
Lookups == {k \in 1..Len(calls) : calls[k].op = "filter"}
CreatesFor(n) == {k \in Creates : calls[k].node = n}

\* The target's projects without their ids: the (name, parent) pairs.
Shape(srv) == {[name |-> r.name, parent_id |-> r.parent_id] : r \in srv}

ForestNodes == Reachable(nodes, forest)
IsForestRoot(n) == n \in Range(forest)
ParentNode(n) == CHOOSE m \in DOMAIN nodes : n \in Range(nodes[m].children)

\* What create_project was given as the parent of n's project.
ExpectedParent(n) == IF IsForestRoot(n) THEN None ELSE obtained[ParentNode(n)]

DistinctNames(seq) ==
    \A a, b \in 1..Len(seq) : nodes[seq[a]].name = nodes[seq[b]].name => a = b

DistinctSiblingNames ==
    /\ DistinctNames(forest)
    /\ \A n \in DOMAIN nodes : DistinctNames(nodes[n].children)

\* The nodes of a forest in depth-first pre-order.
RECURSIVE PreOrder(_, _)
PreOrder(ns, seq) ==
    IF seq = <<>> THEN <<>>
    ELSE <<Head(seq)>> \o PreOrder(ns, ns[Head(seq)].children) \o PreOrder(ns, Tail(seq))

IsCreate(c) == c.op = "create"
CreateRequests == SelectSeq(calls, IsCreate)
LastCall == calls[Len(calls)]

\* The item the target holds if it answered request c with a project that
\* has the name and the parent that were asked for.
Requested(c) == [id |-> c.result, name |-> c.name, parent_id |-> c.parent_id]

\* The requests of this run of one kind for one node.
CallsFor(op, n) == {k \in 1..Len(calls) : calls[k].op = op /\ calls[k].node = n}

\* project_iterator is executing, or is over by returning or by raising.
Running == pc \in {"create", "filter"}
Ended == pc \in {"returned", "raised"}

Completed == pc = "returned" /\ run >= 1

\* ================================================================ claims
\* ---------------------------------------------------------------- C1
\* C1: a second run of project_iterator with the same forest, after a first
\* run that completed, creates nothing and leaves the target's set of
\* (name, parent) pairs as the first run left it. Stated for the runs in
\* which the target raises nothing but conflicts.
C1_SecondRunCreatesNothing ==
    (Completed /\ run = 2 /\ faults = 0) =>
        /\ Creates = {}
        /\ Shape(server) = Shape(before)

\* ---------------------------------------------------------------- C2
\* C2: when project_iterator completes, the target holds for every node of
\* the forest a project with the node's name whose parent is the project
\* obtained for the node's parent (no parent for the roots).
C2_ShapePreserved ==
    Completed => \A n \in ForestNodes :
        \E r \in server : r.name = nodes[n].name /\ r.parent_id = ExpectedParent(n)

\* ---------------------------------------------------------------- C3
\* C3: on a target without projects and a forest whose siblings have
\* distinct names, a completed run has made exactly one successful create
\* per node and no lookup, and the target has as many projects as the forest
\* has nodes.
C3_EmptyTarget ==
    (Completed /\ run = 1 /\ before = {} /\ DistinctSiblingNames) =>
        /\ \A n \in ForestNodes : Cardinality(CreatesFor(n)) = 1
        /\ Cardinality(Creates) = Cardinality(ForestNodes)
        /\ Lookups = {}
        /\ Cardinality(server) = Cardinality(ForestNodes)

\* ---------------------------------------------------------------- C4
\* C4: every create request carries no parent for a root of the forest and
\* otherwise the id of the item create_project returned for the node's
\* parent, which is an id of the target and never an id of the source.
C4_ParentThreading ==
    \A k \in 1..Len(calls) : calls[k].op = "create" =>
        /\ calls[k].parent_id = ExpectedParent(calls[k].node)
        /\ calls[k].parent_id \notin DOMAIN nodes
        /\ ~IsForestRoot(calls[k].node) =>
              /\ calls[k].parent_id /= None
              /\ \E r \in server : r.id = calls[k].parent_id

\* A completed run that created a project under a project it had found by
\* name and another under a project it had created itself.
C4_Witness ==
    /\ Completed
    /\ \E k \in Creates : \E j \in 1..(k - 1) :
          /\ calls[j].op = "filter"
          /\ calls[j].result = calls[k].parent_id
    /\ \E k \in Creates : \E j \in Creates : calls[j].result = calls[k].parent_id

\* ---------------------------------------------------------------- C5
\* C5: a create that fails for a reason other than a conflict ends
\* create_project at once: no lookup follows, nothing is returned for the
\* node and project_iterator is left.
C5_OtherFailuresPropagate ==
    \A k \in 1..Len(calls) :
        (calls[k].op = "create" /\ calls[k].result \in {"rejected", "failed"}) =>
            /\ k = Len(calls)
            /\ pc = "raised"
            /\ obtained[calls[k].node] = None

\* ---------------------------------------------------------------- C6
\* C6: once create_project has raised, at any depth, no request follows, no
\* call of project_iterator is left active, and every project the target had
\* or was given before is still there as it was.
C6_AbortWithoutRollback ==
    /\ \A k \in 1..Len(calls) : calls[k].result \in {"failed", "IndexError"} =>
          /\ k = Len(calls)
          /\ pc = "raised"
          /\ stack = <<>>
    /\ before \subseteq server
    /\ \A k \in Creates :
          [id |-> calls[k].result, name |-> calls[k].name,
           parent_id |-> calls[k].parent_id] \in server

\* A run left by an exception below the top level, after it had created
\* projects and before it had tried every node.
C6_Witness ==
    /\ pc = "raised"
    /\ Creates /= {}
    /\ calls[Len(calls)].parent_id /= None
    /\ \E n \in ForestNodes : \A k \in 1..Len(calls) : calls[k].node /= n
    /\ \E n \in Range(forest) : \A k \in 1..Len(calls) : calls[k].node /= n

\* ---------------------------------------------------------------- C7
\* C7 as stated: for any record list with unique ids and any scope X that is
\* the id of a record, the scoped build returns exactly one root, X, whose
\* tree is the subtree of X in the unscoped build (same nodes, nesting and
\* child order), and nothing outside X's subtree is reachable.
C7_ScopedBuildAsStated ==
    (Built /\ UniqueIds(projects) /\ scoped_project_id \in Ids(projects)) =>
        /\ forest = <<scoped_project_id>>
        /\ SameSubtree(nodes, MakeProjectHierarchy(projects, None).nodes, scoped_project_id)
        /\ Reachable(nodes, forest) = SubtreeIds(projects, scoped_project_id)

\* C7 amended: the same, for a scope X that does not lie on a cycle of
\* parent links (the scoped build cuts X from its parent, the unscoped
\* build does not).
C7_ScopedBuild ==
    (/\ Built
     /\ UniqueIds(projects)
     /\ scoped_project_id \in Ids(projects)
     /\ ~OnCycle(projects, scoped_project_id)) =>
        /\ forest = <<scoped_project_id>>
        /\ SameSubtree(nodes, MakeProjectHierarchy(projects, None).nodes, scoped_project_id)
        /\ Reachable(nodes, forest) = SubtreeIds(projects, scoped_project_id)

\* A scoped build of a project that has a parent, a child and nothing else.
C7_Witness ==
    /\ Built
    /\ UniqueIds(projects)
    /\ Len(projects) = MaxRecords
    /\ scoped_project_id \in Ids(projects)
    /\ ~OnCycle(projects, scoped_project_id)
    /\ nodes[scoped_project_id].children /= <<>>
    /\ Ids(projects) \ SubtreeIds(projects, scoped_project_id) /= {}
    /\ forest = <<scoped_project_id>>

C10_NoSuchScopeAsStated ==
    (Built /\ scoped_project_id /= None /\ scoped_project_id \notin Ids(projects)) =>
        forest = <<>>

\* C10 amended: a scope that is neither null nor the empty string and is
\* the id of no record gives an empty forest.
C10_NoSuchScope ==
    (Built /\ Truthy(scoped_project_id) /\ scoped_project_id \notin Ids(projects)) =>
        forest = <<>>

\* A build scoped to an id no record has, over records an unscoped build
\* makes a forest of.
C10_Witness ==
    /\ Built
    /\ scoped_project_id = MissingId
    /\ NullParentCount(projects) > 0
    /\ forest = <<>>

\* ---------------------------------------------------------------- C11
\* C11: with unique ids and no parent cycles, for any scope, every node
\* reachable from the forest is reached by exactly one path: it is referred
\* to once, as a root or as a child of one reachable node, and no node is
\* its own descendant; every record takes one outcome, so no node is
\* referred to twice anywhere.
C11_WellFormedForest ==
    (Built /\ UniqueIds(projects) /\ NoCycles(projects)) =>
        /\ \A n \in Reachable(nodes, forest) :
              Cardinality(Slots(nodes, forest, Reachable(nodes, forest), n)) = 1
        /\ Acyclic(nodes, forest)
        /\ \A n \in DOMAIN nodes :
              Cardinality(Slots(nodes, forest, DOMAIN nodes, n)) <= 1

\* A scoped build of a project that has a parent among the records and a
\* child of its own.
C11_Witness ==
    /\ Built
    /\ UniqueIds(projects)
    /\ NoCycles(projects)
    /\ Truthy(scoped_project_id)
    /\ forest = <<scoped_project_id>>
    /\ projects[Pos(projects, scoped_project_id)].parent_id \in Ids(projects)
    /\ nodes[scoped_project_id].children /= <<>>

\* ---------------------------------------------------------------- C15
\* C15: with unique ids, the children of every node are its child records
\* in the order of the record list, and without a scope the roots are the
\* records without a parent in the order of the record list.
C15_OrderPreserved ==
    (Built /\ UniqueIds(projects)) =>
        /\ \A m \in DOMAIN nodes :
              ListsInOrder(projects, nodes[m].children,
                  {k \in 1..Len(projects) :
                      /\ projects[k].parent_id = m
                      /\ IsAttach(projects[k], scoped_project_id)})
        /\ scoped_project_id = None =>
              ListsInOrder(projects, forest,
                  {k \in 1..Len(projects) : projects[k].parent_id = None})

\* An unscoped build in which a root has two children, listed after a
\* record that is no child of it.
C15_Witness ==
    /\ Built
    /\ UniqueIds(projects)
    /\ scoped_project_id = None
    /\ \E m \in Range(forest) :
          /\ Len(nodes[m].children) >= 2
          /\ Pos(projects, m) > 1

\* ---------------------------------------------------------------- C12
\* C12: the create requests of a run visit the forest in depth-first
\* pre-order, one per node; a lookup only follows the failed create of the
\* same node; the create of a node that has a parent comes after a request
\* for the parent was answered with a project, whose id it carries.
C12_PreOrder ==
    /\ run >= 1 =>
          /\ Len(CreateRequests) <= Len(PreOrder(nodes, forest))
          /\ \A k \in 1..Len(CreateRequests) :
                CreateRequests[k].node = PreOrder(nodes, forest)[k]
    /\ \A k \in 1..Len(calls) : calls[k].op = "filter" =>
          /\ k > 1
          /\ calls[k - 1].op = "create"
          /\ calls[k - 1].node = calls[k].node
          /\ calls[k - 1].result \in ErrorKinds
    /\ \A k \in 1..Len(calls) :
          (calls[k].op = "create" /\ ~IsForestRoot(calls[k].node)) =>
              \E j \in 1..(k - 1) :
                  /\ calls[j].node = ParentNode(calls[k].node)
                  /\ calls[j].result \notin ErrorKinds
                  /\ calls[j].result = calls[k].parent_id

\* A completed run over a root with a child, followed by a second root.
C12_Witness ==
    /\ Completed
    /\ Len(forest) >= 2
    /\ nodes[forest[1]].children /= <<>>
    /\ Len(CreateRequests) = Len(PreOrder(nodes, forest))
    /\ Lookups /= {}

\* ---------------------------------------------------------------- C13
\* C13: whatever create_project returns for a request has the requested
\* name and the requested parent. Stated for the runs in which the target
\* raises nothing but conflicts.
C13_EnsureReturnsRequested ==
    faults = 0 => \A k \in 1..Len(calls) :
        calls[k].result \notin ErrorKinds => Requested(calls[k]) \in server

\* ---------------------------------------------------------------- C14
\* C14: when the create failed with what create_project takes for
\* already-exists and the lookup by name finds nothing, create_project
\* returns nothing and the error leaves project_iterator: it is the last
\* request and no call is left active.
C14_EmptyLookupIsFatal ==
    \A k \in 1..Len(calls) :
        (calls[k].op = "filter" /\ calls[k].result = "IndexError") =>
            /\ k = Len(calls)
            /\ pc = "raised"
            /\ stack = <<>>
            /\ obtained[calls[k].node] = None

\* A run left by an empty lookup below the top level, a later root not tried.
C14_Witness ==
    /\ pc = "raised"
    /\ calls /= <<>>
    /\ LastCall.op = "filter"
    /\ LastCall.result = "IndexError"
    /\ LastCall.parent_id /= None
    /\ \E n \in Range(forest) : \A k \in 1..Len(calls) : calls[k].node /= n

\* ---------------------------------------------------------------- C16
\* C16: during replication the forest is never modified and the target only
\* changes by gaining the project of a create that succeeded; a failed
\* create and a lookup change nothing on the target.
C16_AppendOnly ==
    [][/\ pc /= "clean" => (nodes' = nodes /\ forest' = forest)
       /\ server \subseteq server'
       /\ server' /= server =>
             /\ Len(calls') = Len(calls) + 1
             /\ calls'[Len(calls')].op = "create"
             /\ calls'[Len(calls')].result \notin ErrorKinds
             /\ calls'[Len(calls')].result \notin {r.id : r \in server}
             /\ server' = server \cup {Requested(calls'[Len(calls')])}
       /\ (/\ Len(calls') = Len(calls) + 1
           /\ \/ calls'[Len(calls')].op = "filter"
              \/ calls'[Len(calls')].result \in ErrorKinds) => server' = server
      ]_vars

\* A completed run on a target that had a project, with a create that
\* succeeded, one that met a conflict and one that was rejected.
C16_Witness ==
    /\ Completed
    /\ before /= {}
    /\ Creates /= {}
    /\ \E k \in 1..Len(calls) : calls[k].result = "conflict"
    /\ \E k \in 1..Len(calls) : calls[k].result = "rejected"

\* ---------------------------------------------------------------- C17
\* C17: for every record list with unique ids, cyclic parent links included,
\* and every scope, the forest make_project_hierarchy returns has no cycle
\* below its roots; a run of project_iterator sends requests only for nodes
\* below the roots, at most one create and at most one lookup for each, is
\* never nested deeper than there are such nodes, and once started it ends
\* by returning or by raising.
C17_Terminates ==
    /\ [](pc /= "clean" =>
            /\ Acyclic(nodes, forest)
            /\ Len(stack) <= Cardinality(Reachable(nodes, forest))
            /\ \A k \in 1..Len(calls) : calls[k].node \in Reachable(nodes, forest)
            /\ \A n \in DOMAIN nodes :
                  /\ Cardinality(CallsFor("create", n)) <= 1
                  /\ Cardinality(CallsFor("filter", n)) <= 1)
    /\ (Running ~> Ended)

\* A completed run on a list whose parent links form a cycle through the
\* scoped project: nodes below the root, a create and a lookup.
C17_Witness ==
    /\ Completed
    /\ OnCycle(projects, scoped_project_id)
    /\ \A k \in 1..Len(projects) : projects[k].parent_id /= projects[k].id
    /\ Cardinality(Reachable(nodes, forest)) >= 2
    /\ Creates /= {}
    /\ Lookups /= {}

====
